---- MODULE Spec2Model ----
(***************************************************************************)
(* Model of the multi-fidelity experiment script (multifidelity_end2end.py)*)
(* and of the graph batching / data loading code                           *)
(* (chemprop/data/v2/dataloader.py).                                       *)
(*                                                                         *)
(*   SpecMain    : one run of main(), statement block by statement block.  *)
(*   SpecCollate : calls of collate_graphs on batches of molecular graphs. *)
(*   SpecLoader  : construction of a MoleculeDataLoader and reads of its   *)
(*                 targets / gt_targets / lt_targets properties.           *)
(***************************************************************************)
EXTENDS Integers, Sequences, FiniteSets, TLC

VARIABLES
    pc,         \* position of main(): the block that runs next, "done" or "raised"
    args,       \* the parsed command line (argparse namespace)
    data_file,  \* contents of the csv file named by --data_file
    fs,         \* directories and files created so far, in creation order
    error,      \* the exception that ended main(), "none" while it runs
    mpnn,       \* the model selected from model_dict, "none" before the lookup
    data_df,    \* the dataframe: columns present, hf and lf column values
    last_added, \* what the latest noise block added to the lf column
    split,      \* hf/lf dataframes' indexes and their train/test splits
    targets,    \* train_t / test_t (and the delta_ml oracle columns)
    preds,      \* what trainer.predict returned, one row per test datapoint
    report,     \* the per-fidelity target / prediction lists behind the metrics
    mgs,        \* the batch handed to collate_graphs
    batch,      \* what the call of collate_graphs produced
    loader,     \* the MoleculeDataLoader under construction / constructed
    access      \* the latest property read on the loader and its outcome

vars == <<pc, args, data_file, fs, error, mpnn, data_df, last_added, split,
          targets, preds, report, mgs, batch, loader, access>>

mainVars == <<pc, args, data_file, fs, error, mpnn, data_df, last_added,
              split, targets, preds, report>>
collateVars == <<mgs, batch>>
loaderVars == <<loader, access>>

(***************************************************************************)
(* Bounds                                                                  *)
(***************************************************************************)
NMols == 3

\* graphs per batch handed to collate_graphs
MaxBatch == 3

\* datapoints per dataset given to a MoleculeDataLoader
MaxData == 2

\* width of an atom / bond feature row (set by the featurizer)
AtomFdim == 2

BondFdim == 3

Mols == 1..NMols

(***************************************************************************)
(* Generic helpers                                                         *)
(***************************************************************************)
\* float("nan"): a value outside the range of every number the model computes
NaN == -1000

IsNaN(x) == x = NaN

\* IEEE addition as far as the model needs it: NaN is absorbing
FAdd(x, y) == IF IsNaN(x) \/ IsNaN(y) THEN NaN ELSE x + y

MinOf(S) == CHOOSE x \in S : \A y \in S : x <= y

MaxOf(S) == CHOOSE x \in S : \A y \in S : x >= y

RECURSIVE SortedSeq(_)
SortedSeq(S) == IF S = {} THEN <<>>
                ELSE <<MinOf(S)>> \o SortedSeq(S \ {MinOf(S)})

Range(s) == {s[i] : i \in 1..Len(s)}

Zeros == [m \in Mols |-> 0]

(***************************************************************************)
(* The command line (add_args)                                             *)
(***************************************************************************)
ModelTypeChoices == {"single_fidelity", "multi_target", "multi_fidelity",
                     "multi_fidelity_weight_sharing", "multi_fidelity_non_diff",
                     "delta_ml", "trad_delta_ml"}

\* values tried for each of the four int / float noise parameters
NoiseParams == {-1, 0, 1}

SizeRatios == {1, 2}

Seeds == {0, 1}

ArgsSpace ==
    [model_type : ModelTypeChoices,
     add_pn_bias_to_make_lf : NoiseParams,
     add_constant_bias_to_make_lf : NoiseParams,
     add_gauss_noise_to_make_lf : NoiseParams,
     add_descriptor_bias_to_make_lf : NoiseParams,
     lf_superset_of_hf : BOOLEAN,
     lf_hf_size_ratio : SizeRatios,
     seed : Seeds]

\* the data file: a smiles index (Mols), the hf column and possibly an lf column
FileHf == [m \in Mols |-> m]

FileLf == [m \in Mols |-> m + 10]

NoColumn == [m \in Mols |-> NaN]

DataFiles == {[columns |-> {"hf"}, hf |-> FileHf, lf |-> NoColumn],
              [columns |-> {"hf", "lf"}, hf |-> FileHf, lf |-> FileLf]}

(***************************************************************************)
(* main(): validation and run directory  (lines 27-49)                     *)
(***************************************************************************)
\* line 27
SingleFidelityNoiseCheck(a) ==
    /\ a.model_type = "single_fidelity"
    /\ \/ a.add_pn_bias_to_make_lf > 0
       \/ a.add_gauss_noise_to_make_lf > 0
       \/ a.add_descriptor_bias_to_make_lf > 0

\* lines 32-35
NotImplementedTypes == {"multi_fidelity_weight_sharing_non_diff", "trad_delta_ml"}

\* lines 60-74: the keys of model_dict and the n_tasks of each model
ModelDictKeys == {"single_fidelity", "multi_target", "multi_fidelity",
                  "multi_fidelity_weight_sharing", "delta_ml", "trad_ delta_ml"}

Raise(e) == /\ pc' = "raised"
            /\ error' = e

Validate ==
    /\ pc = "start"
    /\ IF SingleFidelityNoiseCheck(args)
         THEN Raise("ValueError")
         ELSE IF args.model_type \in NotImplementedTypes
                THEN Raise("NotImplementedError")
                ELSE pc' = "makedirs" /\ UNCHANGED error
    /\ UNCHANGED <<args, data_file, fs, mpnn, data_df, last_added, split,
                   targets, preds, report, collateVars, loaderVars>>

\* lines 39-44
MakeRunDir ==
    /\ pc = "makedirs"
    /\ fs' = fs \o <<"results_dir", "run_dir">>
    /\ pc' = "dump_args"
    /\ UNCHANGED <<args, data_file, error, mpnn, data_df, last_added, split,
                   targets, preds, report, collateVars, loaderVars>>

\* lines 47-53
DumpArgs ==
    /\ pc = "dump_args"
    /\ fs' = Append(fs, "args.json")
    /\ pc' = "build_model"
    /\ UNCHANGED <<args, data_file, error, mpnn, data_df, last_added, split,
                   targets, preds, report, collateVars, loaderVars>>

\* lines 56-78
BuildModel ==
    /\ pc = "build_model"
    /\ IF args.model_type \in ModelDictKeys
         THEN /\ mpnn' = args.model_type
              /\ pc' = "read_data"
              /\ UNCHANGED error
         ELSE /\ Raise("KeyError")
              /\ UNCHANGED mpnn
    /\ UNCHANGED <<args, data_file, fs, data_df, last_added, split,
                   targets, preds, report, collateVars, loaderVars>>

\* line 81
ReadData ==
    /\ pc = "read_data"
    /\ data_df' = data_file
    /\ pc' = "copy_hf"
    /\ UNCHANGED <<args, data_file, fs, error, mpnn, last_added, split,
                   targets, preds, report, collateVars, loaderVars>>

(***************************************************************************)
(* main(): synthesis of the low-fidelity column  (lines 83-115)            *)
(***************************************************************************)
\* np.random.seed(args.seed), line 51: every later draw is a function of the
\* seed and of the number of values drawn before it.  Draws from (-1, 1).
Uniform(seed, k) == IF (seed + k) % 2 = 0 THEN 1 ELSE -1

\* np.polyval(p, x): p[1] * x^(n-1) + ... + p[n], by Horner's rule
RECURSIVE PolyvalFrom(_, _, _, _)
PolyvalFrom(p, x, i, acc) ==
    IF i > Len(p) THEN acc ELSE PolyvalFrom(p, x, i + 1, acc * x + p[i])

polyval(p, x) == PolyvalFrom(p, x, 1, 0)

\* lines 84-85
CopyHfToLf(a, df) ==
    IF a.model_type # "single_fidelity"
      THEN [df EXCEPT !.columns = @ \cup {"lf"}, !.lf = df.hf]
      ELSE df

\* data_df[lf] = data_df[hf] + v : each block restarting from the HF column
AddToLf_FromHf(df, v) == [df EXCEPT !.lf = [m \in Mols |-> FAdd(df.hf[m], v[m])]]

\* data_df[lf] = data_df[lf] + v : the statement every noise block ends with
AddToLf(df, v) == [df EXCEPT !.lf = [m \in Mols |-> FAdd(df.lf[m], v[m])]]

\* line 87
PnBiasEnabled(a) == a.add_pn_bias_to_make_lf > 0

\* lines 89-91: order + 1 coefficients, polynomial of the HF column
PnBiasTerm(a, df) ==
    LET coefficients == [k \in 1..(a.add_pn_bias_to_make_lf + 1) |->
                            Uniform(a.seed, k)]
    IN  [m \in Mols |-> polyval(coefficients, df.hf[m])]

\* line 93
ConstantBiasEnabled(a) == a.add_constant_bias_to_make_lf # 0

\* line 95
ConstantBiasTerm(a, df) == [m \in Mols |-> a.add_constant_bias_to_make_lf]

\* line 97
GaussNoiseEnabled(a) == a.add_gauss_noise_to_make_lf > 0

\* line 98: gauss_noise(df_len, std, seed), a seeded sample scaled by std
GaussNoiseTerm(a, df) ==
    [m \in Mols |-> a.add_gauss_noise_to_make_lf * (((a.seed + m) % 3) - 1)]

\* line 100
DescriptorBiasEnabled(a) == a.add_descriptor_bias_to_make_lf # 0

\* lines 101-112: seeded weights in (-N, N) times per-molecule descriptors
DescriptorBiasTerm(a, df) ==
    LET drawn == IF PnBiasEnabled(a) THEN a.add_pn_bias_to_make_lf + 1 ELSE 0
        weight == Uniform(a.seed, drawn + 1) * a.add_descriptor_bias_to_make_lf
    IN  [m \in Mols |-> weight * ((m % 2) + 1)]

\* One noise block: `if enabled: data_df[lf] = data_df[lf] + term`.
\* Reading a column the dataframe does not have raises KeyError.
NoiseBlock(here, next, enabled, term) ==
    /\ pc = here
    /\ IF ~enabled
         THEN /\ pc' = next
              /\ last_added' = Zeros
              /\ UNCHANGED <<data_df, error>>
         ELSE IF "lf" \notin data_df.columns
                THEN /\ Raise("KeyError")
                     /\ UNCHANGED <<data_df, last_added>>
                ELSE /\ data_df' = AddToLf(data_df, term)
                     /\ last_added' = term
                     /\ pc' = next
                     /\ UNCHANGED error
    /\ UNCHANGED <<args, data_file, fs, mpnn, split, targets, preds,
                   report, collateVars, loaderVars>>

\* lines 84-85
CopyHf ==
    /\ pc = "copy_hf"
    /\ data_df' = CopyHfToLf(args, data_df)
    /\ pc' = "pn_bias"
    /\ UNCHANGED <<args, data_file, fs, error, mpnn, last_added, split,
                   targets, preds, report, collateVars, loaderVars>>

\* lines 87-91
AddPnBias ==
    NoiseBlock("pn_bias", "constant_bias", PnBiasEnabled(args),
               PnBiasTerm(args, data_df))

\* lines 93-95
AddConstantBias ==
    NoiseBlock("constant_bias", "gauss_noise", ConstantBiasEnabled(args),
               ConstantBiasTerm(args, data_df))

\* lines 97-98
AddGaussNoise ==
    NoiseBlock("gauss_noise", "descriptor_bias", GaussNoiseEnabled(args),
               GaussNoiseTerm(args, data_df))

\* lines 100-112
AddDescriptorBias ==
    NoiseBlock("descriptor_bias", "export", DescriptorBiasEnabled(args),
               DescriptorBiasTerm(args, data_df))

\* lines 114-115 and 347-374: export_and_plot_hf_lf_data
ExportHfLf ==
    /\ pc = "export"
    /\ fs' = IF args.model_type # "single_fidelity"
               THEN fs \o <<"lf_hf_targets.csv", "lf_vs_hf_targets.png">>
               ELSE fs
    /\ pc' = "split"
    /\ UNCHANGED <<args, data_file, error, mpnn, data_df, last_added, split,
                   targets, preds, report, collateVars, loaderVars>>

(***************************************************************************)
(* main(): splits and targets  (lines 117-174)                             *)
(***************************************************************************)
\* Python's round(n / d) for positive d: halves go to the even neighbour
RoundDiv(n, d) ==
    LET q == n \div d
        r == n % d
    IN  IF 2 * r < d THEN q
        ELSE IF 2 * r > d THEN q + 1
        ELSE IF q % 2 = 0 THEN q ELSE q + 1

\* lines 133 and 137: the denominator of hf_frac
HfFracDenominator(a) ==
    IF a.lf_superset_of_hf THEN a.lf_hf_size_ratio ELSE a.lf_hf_size_ratio + 1

\* DataFrame.sample(frac=hf_frac, random_state=seed): round(frac * len) rows,
\* chosen as a function of the seed
Sample(a) ==
    LET n == RoundDiv(NMols, HfFracDenominator(a))
    IN  {((a.seed + i) % NMols) + 1 : i \in 0..(n - 1)}

\* lines 132-143: the indexes of hf_df and lf_df
HfIndex(a) == Sample(a)

LfIndex(a) == IF a.lf_superset_of_hf THEN Mols ELSE Mols \ Sample(a)

\* split_by_prop_dict[split_type](df=df): a train list and a test list that
\* partition the index of df; the test list of a non-empty df is not empty
SplitsOf(index) ==
    {[train |-> SortedSeq(index \ test), test |-> SortedSeq(test)] :
        test \in (SUBSET index) \ {{}}}

\* lines 117-124 (single fidelity) and 132-154 (the other model types)
SplitData ==
    /\ pc = "split"
    /\ IF args.model_type = "single_fidelity"
         THEN \E hf \in SplitsOf(Mols) :
                split' = [hf_index |-> Mols, lf_index |-> {},
                          hf_train_index |-> hf.train, hf_test_index |-> hf.test,
                          lf_train_index |-> <<>>, lf_test_index |-> <<>>,
                          train_index |-> hf.train, test_index |-> hf.test]
         ELSE \E hf \in SplitsOf(HfIndex(args)), lf \in SplitsOf(LfIndex(args)) :
                split' = [hf_index |-> HfIndex(args), lf_index |-> LfIndex(args),
                          hf_train_index |-> hf.train, hf_test_index |-> hf.test,
                          lf_train_index |-> lf.train, lf_test_index |-> lf.test,
                          train_index |-> lf.train \o hf.train,
                          test_index |-> lf.test \o hf.test]
    /\ pc' = "select_targets"
    /\ UNCHANGED <<args, data_file, fs, error, mpnn, data_df, last_added,
                   targets, preds, report, collateVars, loaderVars>>

\* the masking with the `if not args.lf_superset_of_hf` test left out
MaskTargets_AlwaysMaskLf(a, df, sp) ==
    LET lf_not_hf_index == (Range(sp.lf_train_index) \cup Range(sp.lf_test_index))
                             \ (Range(sp.hf_train_index) \cup Range(sp.hf_test_index))
        hf_all == Range(sp.hf_train_index) \cup Range(sp.hf_test_index)
    IN  [df EXCEPT
           !.hf = [m \in Mols |-> IF m \in lf_not_hf_index THEN NaN ELSE df.hf[m]],
           !.lf = [m \in Mols |-> IF m \in hf_all THEN NaN ELSE df.lf[m]]]

\* lines 166-169: NaN marks the fidelity a molecule has no label for
MaskTargets(a, df, sp) ==
    LET lf_not_hf_index == (Range(sp.lf_train_index) \cup Range(sp.lf_test_index))
                             \ (Range(sp.hf_train_index) \cup Range(sp.hf_test_index))
        hf_all == Range(sp.hf_train_index) \cup Range(sp.hf_test_index)
    IN  [df EXCEPT
           !.hf = [m \in Mols |-> IF m \in lf_not_hf_index THEN NaN ELSE df.hf[m]],
           !.lf = [m \in Mols |-> IF ~a.lf_superset_of_hf /\ m \in hf_all
                                    THEN NaN ELSE df.lf[m]]]

\* data_df.loc[index][[columns]].values: one row per index entry, the
\* columns in the order they are listed
SelectRows(df, index, columns) ==
    [i \in 1..Len(index) |->
        [c \in 1..Len(columns) |->
            IF columns[c] = "lf" THEN df.lf[index[i]] ELSE df.hf[index[i]]]]

\* lines 173-174: the columns of train_t / test_t in the two-target modes
TwoTargetColumns == <<"lf", "hf">>

\* lines 127-128 (single fidelity), 157-162 (delta_ml), 164-174 (the rest)
SelectTargets ==
    /\ pc = "select_targets"
    /\ IF args.model_type = "single_fidelity"
         THEN /\ targets' = [train_t |-> SelectRows(data_df, split.train_index, <<"hf">>),
                             test_t |-> SelectRows(data_df, split.test_index, <<"hf">>),
                             train_oracle |-> <<>>, test_oracle |-> <<>>]
              /\ UNCHANGED data_df
         ELSE IF args.model_type = "delta_ml"
         THEN /\ targets' = [train_t |-> SelectRows(data_df, split.train_index, <<"hf">>),
                             test_t |-> SelectRows(data_df, split.test_index, <<"hf">>),
                             train_oracle |-> SelectRows(data_df, split.train_index, <<"lf">>),
                             test_oracle |-> SelectRows(data_df, split.test_index, <<"lf">>)]
              /\ UNCHANGED data_df
         ELSE /\ data_df' = MaskTargets(args, data_df, split)
              /\ targets' = [train_t |-> SelectRows(data_df', split.train_index, TwoTargetColumns),
                             test_t |-> SelectRows(data_df', split.test_index, TwoTargetColumns),
                             train_oracle |-> <<>>, test_oracle |-> <<>>]
    /\ pc' = "train"
    /\ UNCHANGED <<args, data_file, fs, error, mpnn, last_added, split,
                   preds, report, collateVars, loaderVars>>

(***************************************************************************)
(* main(): training, prediction and results  (lines 181-341)               *)
(***************************************************************************)
\* lines 60-71 with 235, 269 and 274: the number of values the selected
\* model predicts per molecule
PredWidth(model) ==
    IF model \in {"multi_target", "multi_fidelity", "multi_fidelity_weight_sharing"}
      THEN 2 ELSE 1

\* lines 181-232: datapoints, datasets, loaders, trainer.fit and
\* trainer.predict, all returning normally; one prediction row per test
\* datapoint, the predicted numbers themselves left at 0
TrainAndPredict ==
    /\ pc = "train"
    /\ preds' = [i \in 1..Len(split.test_index) |-> [c \in 1..PredWidth(mpnn) |-> 0]]
    /\ pc' = "postprocess"
    /\ UNCHANGED <<args, data_file, fs, error, mpnn, data_df, last_added,
                   split, targets, report, collateVars, loaderVars>>

NoReport == [targets_lf |-> <<>>, targets_hf |-> <<>>,
             preds_lf |-> <<>>, preds_hf |-> <<>>]

\* lines 285-293: target[0], pred[0], target[1], pred[1] are read for every
\* row (pred[k] only when target[k] is not NaN); an index past the end of a
\* row raises IndexError
RowReadFails(target, pred) ==
    \/ Len(target) < 1
    \/ ~IsNaN(target[1]) /\ Len(pred) < 1
    \/ Len(target) < 2
    \/ ~IsNaN(target[2]) /\ Len(pred) < 2

RECURSIVE Observed(_, _, _)
Observed(rows, tgts, col) ==
    IF rows = <<>> THEN <<>>
    ELSE (IF IsNaN(Head(tgts)[col]) THEN <<>> ELSE <<Head(rows)[col]>>)
           \o Observed(Tail(rows), Tail(tgts), col)

\* lines 283-298
TwoTargetReport(tgts, prds) ==
    [targets_lf |-> Observed(tgts, tgts, 1), targets_hf |-> Observed(tgts, tgts, 2),
     preds_lf |-> Observed(prds, tgts, 1), preds_hf |-> Observed(prds, tgts, 2)]

\* lines 235-243
SingleReport(tgts, prds) ==
    [targets_lf |-> <<>>, targets_hf |-> [i \in 1..Len(tgts) |-> tgts[i][1]],
     preds_lf |-> <<>>, preds_hf |-> [i \in 1..Len(prds) |-> prds[i][1]]]

\* lines 234-249 (single fidelity) and 267-306 (the other model types)
PostProcess ==
    /\ pc = "postprocess"
    /\ IF args.model_type = "single_fidelity"
         THEN /\ report' = SingleReport(targets.test_t, preds)
              /\ fs' = Append(fs, "test_metrics.csv")
              /\ pc' = "write_preds"
              /\ UNCHANGED error
         ELSE IF \E i \in 1..Len(targets.test_t) :
                     RowReadFails(targets.test_t[i], preds[i])
                THEN /\ Raise("IndexError")
                     /\ UNCHANGED <<fs, report>>
                ELSE /\ report' = TwoTargetReport(targets.test_t, preds)
                     /\ fs' = Append(fs, "test_metrics.csv")
                     /\ pc' = "write_preds"
                     /\ UNCHANGED error
    /\ UNCHANGED <<args, data_file, mpnn, data_df, last_added, split,
                   targets, preds, collateVars, loaderVars>>

\* lines 260-266 / 331-339 and 341
WritePreds ==
    /\ pc = "write_preds"
    /\ fs' = Append(fs, "mf_test_preds.csv")
    /\ pc' = "done"
    /\ UNCHANGED <<args, data_file, error, mpnn, data_df, last_added, split,
                   targets, preds, report, collateVars, loaderVars>>

(***************************************************************************)
(* collate_graphs  (dataloader.py lines 14-61)                             *)
(*                                                                         *)
(* Python lists and arrays are 0-based: element i of a list is element     *)
(* i + 1 of the sequence that models it.  The indices stored inside the    *)
(* lists keep their Python values.                                         *)
(***************************************************************************)
At(list, i) == list[i + 1]

\* an array: its shape and its entries along axis 0
Array1(n, x) == [shape |-> <<n>>, data |-> [i \in 1..n |-> x]]

Array2(n, d, x) == [shape |-> <<n, d>>, data |-> [i \in 1..n |-> [j \in 1..d |-> x]]]

\* np.zeros(n)
np_zeros(n) == Array1(n, 0)

\* the MolGraphs batches are made of (featurizers.molgraph.MolGraph):
\* one heavy atom; two bonded atoms; a chain of three; a centre with three
\* neighbours.  a2b lists the incoming bonds of each atom, b2a the atom a
\* bond starts from, b2revb the reverse bond.
MolGraph(na, nb, a2b_, b2a_, b2revb_) ==
    [n_atoms |-> na, n_bonds |-> nb,
     X_v |-> Array2(na, AtomFdim, 1), X_e |-> Array2(nb, BondFdim, 1),
     a2b |-> a2b_, b2a |-> b2a_, b2revb |-> b2revb_]

Graphs ==
    {MolGraph(1, 0, << <<>> >>, <<>>, <<>>),
     MolGraph(2, 2, << <<1>>, <<0>> >>, <<0, 1>>, <<1, 0>>),
     MolGraph(3, 4, << <<1>>, <<0, 3>>, <<2>> >>, <<0, 1, 1, 2>>, <<1, 0, 3, 2>>),
     MolGraph(4, 6, << <<1, 3, 5>>, <<0>>, <<2>>, <<4>> >>,
              <<0, 1, 0, 2, 0, 3>>, <<1, 0, 3, 2, 5, 4>>)}

RECURSIVE SeqsUpTo(_, _)
SeqsUpTo(S, n) ==
    IF n = 0 THEN {<<>>}
    ELSE LET shorter == SeqsUpTo(S, n - 1)
         IN  shorter \cup {Append(q, x) : q \in shorter, x \in S}

\* the batches a DataLoader hands to its collate_fn are never empty
Batches == SeqsUpTo(Graphs, MaxBatch) \ {<<>>}

\* lines 15-25: the locals before the loop
CollateStart(graphs) ==
    [n_atoms |-> 1, n_bonds |-> 1, a_scope |-> <<>>, b_scope |-> <<>>,
     X_vs |-> <<np_zeros(At(graphs, 0).X_v.shape[1])>>,
     X_es |-> <<np_zeros(At(graphs, 0).X_e.shape[1])>>,
     a2b |-> << <<>> >>, b2a |-> <<0>>, b2revb |-> <<0>>]

\* lines 28-46: one iteration of the loop
CollateStep(l, mg) ==
    [n_atoms |-> l.n_atoms + mg.n_atoms,
     n_bonds |-> l.n_bonds + mg.n_bonds,
     a_scope |-> Append(l.a_scope, <<l.n_atoms, mg.n_atoms>>),
     b_scope |-> Append(l.b_scope, <<l.n_bonds, mg.n_bonds>>),
     X_vs |-> Append(l.X_vs, mg.X_v),
     X_es |-> Append(l.X_es, mg.X_e),
     a2b |-> l.a2b \o [a \in 1..mg.n_atoms |->
                          [k \in 1..Len(mg.a2b[a]) |-> mg.a2b[a][k] + l.n_bonds]],
     b2a |-> l.b2a \o [b \in 1..mg.n_bonds |-> l.n_atoms + mg.b2a[b]],
     b2revb |-> l.b2revb \o [b \in 1..mg.n_bonds |-> l.n_bonds + mg.b2revb[b]]]

\* lines 27-46
RECURSIVE CollateLoop(_, _)
CollateLoop(l, graphs) ==
    IF graphs = <<>> THEN l
    ELSE CollateLoop(CollateStep(l, Head(graphs)), Tail(graphs))

RECURSIVE ConcatData(_)
ConcatData(arrays) ==
    IF arrays = <<>> THEN <<>> ELSE Head(arrays).data \o ConcatData(Tail(arrays))

\* np.concatenate(arrays) along axis 0: the arrays must have the same number
\* of dimensions and agree on every dimension but the first
np_concatenate(arrays) ==
    IF \E i \in 1..Len(arrays) :
           \/ Len(arrays[i].shape) # Len(arrays[1].shape)
           \/ Tail(arrays[i].shape) # Tail(arrays[1].shape)
      THEN [status |-> "ValueError"]
      ELSE [status |-> "ok",
            value |-> [shape |-> <<Len(ConcatData(arrays))>> \o Tail(arrays[1].shape),
                       data |-> ConcatData(arrays)]]


\* lines 52-55
PadA2b(a2b_, n_atoms_) ==
    LET max_num_bonds == MaxOf({1} \cup {Len(a2b_[a]) : a \in 1..Len(a2b_)})
    IN  [a \in 1..n_atoms_ |->
            a2b_[a] \o [k \in 1..(max_num_bonds - Len(a2b_[a])) |-> 0]]

\* line 59: b2a[a2b]
Gather(b2a_, a2b_) ==
    [a \in 1..Len(a2b_) |-> [k \in 1..Len(a2b_[a]) |-> At(b2a_, a2b_[a][k])]]

\* lines 14-61
collate_graphs(graphs) ==
    LET l == CollateLoop(CollateStart(graphs), graphs)
        X_v == np_concatenate(l.X_vs)
        X_e == np_concatenate(l.X_es)
        a2b_ == PadA2b(l.a2b, l.n_atoms)
    IN  IF X_v.status # "ok" \/ X_e.status # "ok"
          THEN [status |-> "ValueError"]
          ELSE [status |-> "returned", X_v |-> X_v.value, X_e |-> X_e.value,
                a2b |-> a2b_, b2a |-> l.b2a, b2revb |-> l.b2revb,
                a_scope |-> l.a_scope, b_scope |-> l.b_scope,
                a2a |-> Gather(l.b2a, a2b_)]

\* the DataLoader calls collate_fn on the batch it has assembled
Collate ==
    /\ batch.status = "idle"
    /\ batch' = collate_graphs(mgs)
    /\ UNCHANGED <<mgs, mainVars, loaderVars>>

\* ... and then assembles the next batch
NextBatch ==
    /\ batch.status # "idle"
    /\ mgs' \in Batches
    /\ batch' = [status |-> "idle"]
    /\ UNCHANGED <<mainVars, loaderVars>>

IdleMain ==
    /\ pc = "idle"
    /\ args = [model_type |-> "none"]
    /\ data_file = [columns |-> {}]
    /\ fs = <<>>
    /\ error = "none"
    /\ mpnn = "none"
    /\ data_df = [columns |-> {}]
    /\ last_added = <<>>
    /\ split = <<>>
    /\ targets = <<>>
    /\ preds = <<>>
    /\ report = <<>>

InitCollate ==
    /\ IdleMain
    /\ mgs \in Batches
    /\ batch = [status |-> "idle"]
    /\ loader = [status |-> "idle"]
    /\ access = [prop |-> "none"]

NextCollate == Collate \/ NextBatch

SpecCollate == InitCollate /\ [][NextCollate]_vars

(***************************************************************************)
(* MoleculeDataLoader  (dataloader.py lines 64-163)                        *)
(***************************************************************************)
\* seed=None
None == -1

SeedOptions == {None, 0, 1}

BatchSizes == {1, 50}

WorkerCounts == {0, 12}

\* datapoint i of a dataset; every datapoint of a dataset is of one type, so
\* either all of them or none of them carry gt_targets / lt_targets
Datapoint(i, has_gt, has_lt) ==
    LET base == [targets |-> 10 + i]
        gt == IF has_gt THEN [gt_targets |-> 20 + i] ELSE <<>>
        lt == IF has_lt THEN [lt_targets |-> 30 + i] ELSE <<>>
    IN  base @@ gt @@ lt

Datasets ==
    {[i \in 1..n |-> Datapoint(i - 1, has_gt, has_lt)] :
        n \in 0..MaxData, has_gt \in BOOLEAN, has_lt \in BOOLEAN}

\* lines 96-101: the sampler __init__ chooses, with its constructor arguments
OwnSampler(dataset, class_balance, seed, shuffle) ==
    IF class_balance
      THEN [kind |-> "ClassBalanceSampler", args |-> <<dataset, seed, shuffle>>]
      ELSE IF shuffle /\ seed # None
        THEN [kind |-> "SeededSampler", args |-> <<dataset, seed, shuffle>>]
        ELSE [kind |-> "None", args |-> <<>>]

\* torch DataLoader.__init__(dataset, batch_size, shuffle, sampler, ...):
\* without a sampler it builds RandomSampler(dataset) when shuffle is set and
\* SequentialSampler(dataset) otherwise, and stores it in self.sampler
DataLoaderInit(dataset, shuffle_arg, sampler_arg) ==
    IF sampler_arg.kind # "None" THEN sampler_arg
    ELSE IF shuffle_arg THEN [kind |-> "RandomSampler", args |-> <<dataset>>]
    ELSE [kind |-> "SequentialSampler", args |-> <<dataset>>]

\* lines 82-110
MoleculeDataLoader(dataset, batch_size, num_workers, class_balance, seed, shuffle) ==
    LET own == OwnSampler(dataset, class_balance, seed, shuffle)
        shuffle_arg == own.kind = "None" /\ shuffle
    IN  [status |-> "constructed",
         dataset |-> dataset,
         class_balance |-> class_balance,
         shuffle |-> shuffle,
         seed |-> seed,
         batch_size |-> batch_size,
         num_workers |-> num_workers,
         own_sampler |-> own,
         dl_shuffle |-> shuffle_arg,
         sampler |-> DataLoaderInit(dataset, shuffle_arg, own)]

\* iter(self.sampler): the dataset indices in the order the sampler yields
\* them.  SequentialSampler yields 0 .. len - 1; the samplers that shuffle or
\* balance yield some other arrangement (here: the reverse order).
SamplerOrder(sampler, n) ==
    IF sampler.kind = "SequentialSampler" THEN [k \in 1..n |-> k - 1]
    ELSE [k \in 1..n |-> n - k]

\* "class balance or shuffle are enabled"
UnsafeToExtract_Claim(l) == l.class_balance \/ l.shuffle

\* the guard with the class_balance test left out
UnsafeToExtract_ShuffleOnly(l) == l.shuffle

\* lines 119, 133, 150
UnsafeToExtract(l) == l.class_balance \/ l.shuffle

\* lines 112-158: the body shared by targets (check_first = FALSE),
\* gt_targets and lt_targets (check_first = TRUE)
ReadProperty(l, attr, check_first) ==
    LET n == Len(l.dataset)
        order == SamplerOrder(l.sampler, n)
    IN  IF UnsafeToExtract(l)
          THEN [prop |-> attr, outcome |-> "ValueError",
                dataset_reads |-> <<>>, sampler_read |-> FALSE]
        ELSE IF check_first /\ n = 0
          THEN [prop |-> attr, outcome |-> "IndexError",
                dataset_reads |-> <<0>>, sampler_read |-> FALSE]
        ELSE IF check_first /\ attr \notin DOMAIN At(l.dataset, 0)
          THEN [prop |-> attr, outcome |-> "None",
                dataset_reads |-> <<0>>, sampler_read |-> FALSE]
        ELSE [prop |-> attr, outcome |-> "list",
              value |-> [k \in 1..n |-> At(l.dataset, order[k])[attr]],
              dataset_reads |-> (IF check_first THEN <<0>> ELSE <<>>) \o order,
              sampler_read |-> TRUE]

\* lines 82-110
Construct ==
    /\ loader.status = "idle"
    /\ \E dataset \in Datasets, batch_size \in BatchSizes,
          num_workers \in WorkerCounts, class_balance \in BOOLEAN,
          seed \in SeedOptions, shuffle \in BOOLEAN :
         loader' = MoleculeDataLoader(dataset, batch_size, num_workers,
                                      class_balance, seed, shuffle)
    /\ UNCHANGED <<access, mainVars, collateVars>>

\* lines 112-124
ReadTargets ==
    /\ loader.status = "constructed"
    /\ access' = ReadProperty(loader, "targets", FALSE)
    /\ UNCHANGED <<loader, mainVars, collateVars>>

\* lines 126-141
ReadGtTargets ==
    /\ loader.status = "constructed"
    /\ access' = ReadProperty(loader, "gt_targets", TRUE)
    /\ UNCHANGED <<loader, mainVars, collateVars>>

\* lines 143-158
ReadLtTargets ==
    /\ loader.status = "constructed"
    /\ access' = ReadProperty(loader, "lt_targets", TRUE)
    /\ UNCHANGED <<loader, mainVars, collateVars>>

InitLoader ==
    /\ IdleMain
    /\ mgs = <<>>
    /\ batch = [status |-> "idle"]
    /\ loader = [status |-> "idle"]
    /\ access = [prop |-> "none"]

NextLoader == Construct \/ ReadTargets \/ ReadGtTargets \/ ReadLtTargets

SpecLoader == InitLoader /\ [][NextLoader]_vars

InitMain ==
    /\ pc = "start"
    /\ args \in ArgsSpace
    /\ data_file \in DataFiles
    /\ fs = <<>>
    /\ error = "none"
    /\ mpnn = "none"
    /\ data_df = [columns |-> {}, hf |-> NoColumn, lf |-> NoColumn]
    /\ last_added = Zeros
    /\ split = [hf_index |-> {}, lf_index |-> {},
                hf_train_index |-> <<>>, hf_test_index |-> <<>>,
                lf_train_index |-> <<>>, lf_test_index |-> <<>>,
                train_index |-> <<>>, test_index |-> <<>>]
    /\ targets = [train_t |-> <<>>, test_t |-> <<>>,
                  train_oracle |-> <<>>, test_oracle |-> <<>>]
    /\ preds = <<>>
    /\ report = NoReport
    /\ mgs = <<>>
    /\ batch = [status |-> "idle"]
    /\ loader = [status |-> "idle"]
    /\ access = [prop |-> "none"]

NextMain ==
    \/ Validate
    \/ MakeRunDir
    \/ DumpArgs
    \/ BuildModel
    \/ ReadData
    \/ CopyHf
    \/ AddPnBias
    \/ AddConstantBias
    \/ AddGaussNoise
    \/ AddDescriptorBias
    \/ ExportHfLf
    \/ SplitData
    \/ SelectTargets
    \/ TrainAndPredict
    \/ PostProcess
    \/ WritePreds

SpecMain == InitMain /\ [][NextMain]_vars

(***************************************************************************)
(* Properties of main()                                                    *)
(***************************************************************************)
\* the parameter values for which a noise block of lines 87-112 runs
TouchesLf(a) ==
    \/ PnBiasEnabled(a)
    \/ ConstantBiasEnabled(a)
    \/ GaussNoiseEnabled(a)
    \/ DescriptorBiasEnabled(a)

\* C1: in single_fidelity mode every combination of the four LF-making
\* parameters that makes main() touch the LF column is rejected with
\* ValueError at once: nothing has been created and no data has been read.
C1_SingleFidelityNoiseRejected ==
    (args.model_type = "single_fidelity" /\ TouchesLf(args) /\ pc # "start")
      => /\ pc = "raised"
         /\ error = "ValueError"
         /\ fs = <<>>
         /\ data_df.columns = {}

\* C2: no model type the parser accepts passes validation and then fails on
\* the model_dict lookup, after the run directory and args.json were written.
C2_AcceptedTypeRejectedOrRegistered ==
    ~(/\ pc = "raised"
      /\ error = "KeyError"
      /\ mpnn = "none"
      /\ "args.json" \in Range(fs))

\* C3: once training and prediction have returned, a run of an accepted model
\* type does not fail; it ends having written test_metrics.csv and then
\* mf_test_preds.csv.
C3_AcceptedRunWritesResults ==
    /\ ~(pc = "raised" /\ preds # <<>>)
    /\ pc = "done" =>
         /\ Len(fs) >= 2
         /\ fs[Len(fs) - 1] = "test_metrics.csv"
         /\ fs[Len(fs)] = "mf_test_preds.csv"

TwoTargetTypes == {"multi_target", "multi_fidelity", "multi_fidelity_weight_sharing"}

Masked ==
    /\ args.model_type \in TwoTargetTypes
    /\ pc \in {"train", "postprocess", "write_preds", "done"}

ExpectedRows(index) ==
    [i \in 1..Len(index) |-> <<data_df.lf[index[i]], data_df.hf[index[i]]>>]

\* C9: in the two-target modes, after the masking, a molecule in the LF set
\* but not in the HF set has a NaN HF target; without lf_superset_of_hf every
\* HF molecule has a NaN LF target and every molecule exactly one observed
\* target; with lf_superset_of_hf every HF molecule keeps both targets; every
\* row of train_t / test_t is (LF value, HF value).
C9_NaNMarksMissingFidelity ==
    Masked =>
      /\ \A m \in split.lf_index \ split.hf_index : IsNaN(data_df.hf[m])
      /\ ~args.lf_superset_of_hf =>
           /\ \A m \in split.hf_index : IsNaN(data_df.lf[m])
           /\ \A m \in Mols : IsNaN(data_df.lf[m]) # IsNaN(data_df.hf[m])
      /\ args.lf_superset_of_hf =>
           \A m \in split.hf_index : ~IsNaN(data_df.lf[m]) /\ ~IsNaN(data_df.hf[m])
      /\ targets.train_t = ExpectedRows(split.train_index)
      /\ targets.test_t = ExpectedRows(split.test_index)

C9_Witness ==
    /\ Masked
    /\ pc = "done"
    /\ ~args.lf_superset_of_hf
    /\ split.hf_index # {}
    /\ split.lf_index # {}
    /\ \E i \in 1..Len(targets.test_t) : IsNaN(targets.test_t[i][1])
    /\ \E i \in 1..Len(targets.train_t) : IsNaN(targets.train_t[i][2])

\* the LF column expected once the noise blocks listed in `blocks` have run
NoiseSum(a, blocks) ==
    LET df == [columns |-> {"hf"}, hf |-> FileHf, lf |-> FileHf]
        pn == IF "pn" \in blocks /\ a.add_pn_bias_to_make_lf > 0
                THEN PnBiasTerm(a, df) ELSE Zeros
        cb == IF "constant" \in blocks /\ a.add_constant_bias_to_make_lf # 0
                THEN ConstantBiasTerm(a, df) ELSE Zeros
        gn == IF "gauss" \in blocks /\ a.add_gauss_noise_to_make_lf > 0
                THEN GaussNoiseTerm(a, df) ELSE Zeros
        db == IF "descriptor" \in blocks /\ a.add_descriptor_bias_to_make_lf # 0
                THEN DescriptorBiasTerm(a, df) ELSE Zeros
    IN  [m \in Mols |-> FileHf[m] + pn[m] + cb[m] + gn[m] + db[m]]

AllNoiseZero(a) ==
    /\ a.add_pn_bias_to_make_lf = 0
    /\ a.add_constant_bias_to_make_lf = 0
    /\ a.add_gauss_noise_to_make_lf = 0
    /\ a.add_descriptor_bias_to_make_lf = 0

\* C10: in a run that is not single-fidelity the LF column starts as a copy
\* of the HF column, the enabled perturbations are added to it one after the
\* other in the order polynomial, constant, Gaussian, descriptor, the HF
\* column keeps the values of the data file throughout, and with all four
\* parameters at zero the LF column equals the HF column.
C10_LfIsHfPlusNoise ==
    args.model_type # "single_fidelity" =>
      /\ pc \in {"pn_bias", "constant_bias", "gauss_noise", "descriptor_bias",
                 "export", "split", "select_targets"}
           => data_df.hf = FileHf /\ "lf" \in data_df.columns
      /\ pc = "pn_bias" => data_df.lf = data_df.hf
      /\ pc = "constant_bias" => data_df.lf = NoiseSum(args, {"pn"})
      /\ pc = "gauss_noise" => data_df.lf = NoiseSum(args, {"pn", "constant"})
      /\ pc = "descriptor_bias" =>
           data_df.lf = NoiseSum(args, {"pn", "constant", "gauss"})
      /\ pc \in {"export", "split", "select_targets"} =>
           /\ data_df.lf = NoiseSum(args, {"pn", "constant", "gauss", "descriptor"})
           /\ AllNoiseZero(args) => data_df.lf = data_df.hf

C10_Witness ==
    /\ args.model_type = "multi_fidelity"
    /\ pc = "export"
    /\ args.add_pn_bias_to_make_lf = 1
    /\ args.add_constant_bias_to_make_lf = -1
    /\ args.add_gauss_noise_to_make_lf = 1
    /\ args.add_descriptor_bias_to_make_lf = 1
    /\ data_df.lf # data_df.hf
    /\ data_df.hf = FileHf

(***************************************************************************)
(* Properties of collate_graphs                                            *)
(***************************************************************************)
RECURSIVE AtomsBefore(_, _)
AtomsBefore(graphs, k) ==
    IF k = 1 THEN 0 ELSE AtomsBefore(graphs, k - 1) + graphs[k - 1].n_atoms

RECURSIVE BondsBefore(_, _)
BondsBefore(graphs, k) ==
    IF k = 1 THEN 0 ELSE BondsBefore(graphs, k - 1) + graphs[k - 1].n_bonds

TotalAtoms(graphs) == AtomsBefore(graphs, Len(graphs) + 1)

TotalBonds(graphs) == BondsBefore(graphs, Len(graphs) + 1)

\* where the k-th graph's atoms / bonds are to start in the flattened batch
AtomStart(graphs, k) == 1 + AtomsBefore(graphs, k)

BondStart(graphs, k) == 1 + BondsBefore(graphs, k)

MaxInBonds(graphs) ==
    MaxOf({0} \cup UNION {{Len(graphs[k].a2b[a]) : a \in 1..graphs[k].n_atoms} :
                             k \in 1..Len(graphs)})

ZeroPadded(graphs, r) ==
    LET width == MaxOf({1, MaxInBonds(graphs)})
    IN  /\ At(r.b2a, 0) = 0
        /\ At(r.b2revb, 0) = 0
        /\ Len(r.a2b) = 1 + TotalAtoms(graphs)
        /\ \A a \in 1..Len(r.a2b) : Len(r.a2b[a]) = width
        /\ \A j \in 1..width : At(r.a2b, 0)[j] = 0 /\ At(r.a2a, 0)[j] = 0
        /\ \A k \in 1..Len(graphs) :
             /\ r.a_scope[k][1] >= 1
             /\ r.b_scope[k][1] >= 1
             /\ \A a \in 0..(graphs[k].n_atoms - 1) :
                  LET row == At(r.a2b, AtomStart(graphs, k) + a)
                      local == At(graphs[k].a2b, a)
                  IN  \A j \in 1..width :
                        IF j > Len(local)
                          THEN row[j] = 0
                               /\ At(r.a2a, AtomStart(graphs, k) + a)[j] = 0
                          ELSE row[j] >= 1

\* C6: for every non-empty batch collate_graphs returns index tensors in
\* which index 0 is zero padding: b2a[0] = b2revb[0] = 0, row 0 of a2b and
\* every padded slot are 0, all rows of a2b have length max(1, largest
\* number of incoming bonds), no real atom or bond has index 0 and a2a is 0
\* at every padded slot.
C6_IndexZeroIsPadding ==
    batch.status # "idle" =>
      /\ batch.status = "returned"
      /\ ZeroPadded(mgs, batch)

ScopesAndOffsets(graphs, r) ==
    /\ Len(r.a_scope) = Len(graphs)
    /\ Len(r.b_scope) = Len(graphs)
    /\ r.a_scope[1][1] = 1
    /\ r.b_scope[1][1] = 1
    /\ \A k \in 1..Len(graphs) :
         /\ r.a_scope[k][2] = graphs[k].n_atoms
         /\ r.b_scope[k][2] = graphs[k].n_bonds
         /\ k > 1 => /\ r.a_scope[k][1] = r.a_scope[k - 1][1] + r.a_scope[k - 1][2]
                     /\ r.b_scope[k][1] = r.b_scope[k - 1][1] + r.b_scope[k - 1][2]
         /\ \A b \in 0..(graphs[k].n_bonds - 1) :
              LET i == r.b_scope[k][1] + b
              IN  /\ At(r.b2a, i) = At(graphs[k].b2a, b) + r.a_scope[k][1]
                  /\ At(r.b2a, i) >= r.a_scope[k][1]
                  /\ At(r.b2a, i) < r.a_scope[k][1] + r.a_scope[k][2]
                  /\ At(r.b2revb, i) = At(graphs[k].b2revb, b) + r.b_scope[k][1]
                  /\ At(r.b2revb, i) >= r.b_scope[k][1]
                  /\ At(r.b2revb, i) < r.b_scope[k][1] + r.b_scope[k][2]
         /\ \A a \in 0..(graphs[k].n_atoms - 1) :
              LET row == At(r.a2b, r.a_scope[k][1] + a)
                  local == At(graphs[k].a2b, a)
              IN  \A j \in 1..Len(local) :
                    /\ row[j] = local[j] + r.b_scope[k][1]
                    /\ row[j] >= r.b_scope[k][1]
                    /\ row[j] < r.b_scope[k][1] + r.b_scope[k][2]
    /\ Len(r.b2a) = 1 + TotalBonds(graphs)
    /\ Len(r.b2revb) = 1 + TotalBonds(graphs)

\* C7: collate_graphs returns one (start, size) pair per graph in a_scope and
\* b_scope, the first start 1 and each start the previous start plus the
\* previous size, and every b2a, b2revb and non-padding a2b entry of the
\* k-th graph is its local index plus the start of the k-th slice, inside
\* that slice.
C7_IndicesOffsetIntoSlices ==
    batch.status # "idle" =>
      /\ batch.status = "returned"
      /\ ScopesAndOffsets(mgs, batch)

FeaturesAligned(graphs, r) ==
    /\ r.X_v.shape = <<1 + TotalAtoms(graphs), AtomFdim>>
    /\ r.X_e.shape = <<1 + TotalBonds(graphs), BondFdim>>
    /\ Len(r.X_v.data) = 1 + TotalAtoms(graphs)
    /\ Len(r.X_e.data) = 1 + TotalBonds(graphs)
    /\ At(r.X_v.data, 0) = [j \in 1..AtomFdim |-> 0]
    /\ At(r.X_e.data, 0) = [j \in 1..BondFdim |-> 0]
    /\ \A k \in 1..Len(graphs) :
         /\ \A a \in 0..(graphs[k].n_atoms - 1) :
              At(r.X_v.data, r.a_scope[k][1] + a) = At(graphs[k].X_v.data, a)
         /\ \A b \in 0..(graphs[k].n_bonds - 1) :
              At(r.X_e.data, r.b_scope[k][1] + b) = At(graphs[k].X_e.data, b)

\* C8: for every non-empty batch collate_graphs returns X_v with 1 + (total
\* atoms) rows of width d_v and X_e with 1 + (total bonds) rows of width d_e,
\* row 0 of each all zeros, and the rows of the k-th a_scope / b_scope slice
\* the k-th graph's feature rows, whatever the size of the first graph.
C8_FeatureRowsAligned ==
    batch.status # "idle" =>
      /\ batch.status = "returned"
      /\ FeaturesAligned(mgs, batch)

(***************************************************************************)
(* Properties of MoleculeDataLoader                                        *)
(***************************************************************************)
\* C5: two loaders built with shuffle = False that differ only in the seed
\* have the same sampler kind, built from the same arguments, and hand the
\* same shuffle flag to DataLoader.
C5_SeedUnusedWithoutShuffle ==
    (loader.status = "constructed" /\ ~loader.shuffle) =>
      \A seed2 \in SeedOptions :
        LET other == MoleculeDataLoader(loader.dataset, loader.batch_size,
                                        loader.num_workers, loader.class_balance,
                                        seed2, loader.shuffle)
        IN  /\ other.sampler.kind = loader.sampler.kind
            /\ other.sampler.args = loader.sampler.args
            /\ other.dl_shuffle = loader.dl_shuffle

InDatasetOrder(l, attr) ==
    [k \in 1..Len(l.dataset) |-> l.dataset[k][attr]]

GuardedRead ==
    UnsafeToExtract_Claim(loader) =>
      /\ access.outcome = "ValueError"
      /\ access.dataset_reads = <<>>
      /\ ~access.sampler_read

\* C4 as stated: with class_balance or shuffle the three properties raise
\* ValueError without touching dataset or sampler; otherwise each returns one
\* entry per datapoint in dataset order, gt_targets / lt_targets returning
\* None when the first datapoint lacks the attribute.
C4_Original ==
    access.prop # "none" =>
      /\ GuardedRead
      /\ ~UnsafeToExtract_Claim(loader) =>
           IF /\ access.prop \in {"gt_targets", "lt_targets"}
              /\ loader.dataset # <<>>
              /\ access.prop \notin DOMAIN loader.dataset[1]
             THEN access.outcome = "None"
             ELSE /\ access.outcome = "list"
                  /\ access.value = InDatasetOrder(loader, access.prop)

\* C4 (amended): as above, except that gt_targets / lt_targets of an empty
\* dataset raise IndexError on reading the first datapoint.
C4_TargetsInDatasetOrder ==
    access.prop # "none" =>
      /\ GuardedRead
      /\ ~UnsafeToExtract_Claim(loader) =>
           IF access.prop \in {"gt_targets", "lt_targets"} /\ loader.dataset = <<>>
             THEN access.outcome = "IndexError"
             ELSE IF /\ access.prop \in {"gt_targets", "lt_targets"}
                     /\ access.prop \notin DOMAIN loader.dataset[1]
               THEN access.outcome = "None"
               ELSE /\ access.outcome = "list"
                    /\ access.value = InDatasetOrder(loader, access.prop)
                    /\ loader.sampler.kind = "SequentialSampler"

C4_Witness ==
    /\ access.prop = "gt_targets"
    /\ ~loader.class_balance
    /\ ~loader.shuffle
    /\ Len(loader.dataset) >= 2
    /\ access.outcome = "list"
    /\ access.value[1] # access.value[2]

====
